---- MODULE Spec2Model ----
(***************************************************************************)
(* Mood-Melodies: the mood-to-playlist resolution of the Spotify services. *)
(*                                                                         *)
(* Strings are TLA+ strings; toLowerCase and includes are computed         *)
(* character by character.  Scores are kept in thousandths so that the     *)
(* fractions of calculateNameRelevance stay integers.                      *)
(***************************************************************************)
EXTENDS Integers, Sequences, FiniteSets, TLC

VARIABLES
    input,      \* pure functions: the candidate array handed to the function
    moodIn,     \* pure functions: the mood string handed to the function
    fn,         \* pure functions: the function applied last ("none" at first)
    out,        \* pure functions: what that function returned or threw
    runs,       \* pure functions: what the later runs on the same input gave
    countIn     \* pure functions: the count argument, <<>> when it is omitted

VARIABLES
    configured, \* EnvConfig.isConfigured(): the client id and secret are set
    stored,     \* SecureStore item spotify_tokens: Null or the stored tokens
    pc,         \* getPlaylistForMood: where the call is suspended
    callMood,       \* getPlaylistForMood: its argument
    accessToken,\* getPlaylistForMood: the token getAccessToken gave, "" for none
    termIdx,    \* searchPlaylistsByMood: index of the term being searched
    allPlaylists,\* searchPlaylistsByMood: items merged so far
    foundPlaylists,  \* getPlaylistForMood: what searchPlaylistsByMood returned
    raised,     \* getPlaylistForMood: message of the error its catch block got
    result,     \* getPlaylistForMood: what the caller got, Pending before
    requests,   \* network requests issued since the caller's call started, in order
    responses,  \* responses to the search requests of the call, in order
    multiPc,    \* getMultiplePlaylistsForMood: idle, first (its own search),
                \* fallback (it awaits getPlaylistForMood) or done
    multiCount, \* getMultiplePlaylistsForMood: its count argument, <<>> when omitted
    multiResult,\* getMultiplePlaylistsForMood: what the caller got, Pending before
    authSteps   \* authenticate: what it did since the caller's call started, in order

VARIABLES
    ACCESS_TOKEN,   \* SpotifyServiceStatic.ACCESS_TOKEN
    stPc,           \* SpotifyServiceStatic.getPlaylistForMood: where it is suspended
    stMood,         \* SpotifyServiceStatic.getPlaylistForMood: its argument
    stIdx,          \* SpotifyServiceStatic.searchPlaylistsByMood: index of the keyword
    stAll,          \* SpotifyServiceStatic.searchPlaylistsByMood: allPlaylists
    stResult,       \* SpotifyServiceStatic.getPlaylistForMood: what the caller got
    stRequests,     \* search requests issued since the call started, in order
    stReceived      \* number of those requests that got their answer

VARIABLES
    scrVariant,     \* ResultsScreen: "results" (results.tsx, SpotifyService) or
                    \* "layout" (_layout.tsx, SimpleSpotifyService)
    scrPc,          \* ResultsScreen: for each running analyzeMood or handleSpotifyAuth
                    \* the await it is suspended at, idle for a free place
    scrMood,        \* ResultsScreen: the mood each running handler holds (the const
                    \* mood of analyzeMood, the moodResult handleSpotifyAuth closed over)
    loading,        \* ResultsScreen state loading
    error,          \* ResultsScreen state error
    needsAuth,      \* ResultsScreen state needsAuth
    playlistUri,    \* ResultsScreen state playlistUri
    moodResult,     \* ResultsScreen state moodResult: its mood, "" for null
    resolved,       \* what the resolution that settled last found
    playlistMood    \* the mood the playlist of playlistUri was resolved for

screenVars == <<scrVariant, scrPc, scrMood, loading, error, needsAuth, playlistUri,
                moodResult, resolved, playlistMood>>

pureVars == <<input, moodIn, fn, out, runs, countIn>>

staticVars == <<ACCESS_TOKEN, stPc, stMood, stIdx, stAll, stResult, stRequests, stReceived>>

svcVars == <<configured, stored, pc, callMood, accessToken, termIdx, allPlaylists,
             foundPlaylists, raised, result, requests, responses,
             multiPc, multiCount, multiResult, authSteps>>

vars == <<input, moodIn, fn, out, runs, countIn, configured, stored, pc, callMood, accessToken,
          termIdx, allPlaylists, foundPlaylists, raised, result, requests, responses,
          multiPc, multiCount, multiResult, authSteps,
          ACCESS_TOKEN, stPc, stMood, stIdx, stAll, stResult, stRequests, stReceived,
          scrVariant, scrPc, scrMood, loading, error, needsAuth, playlistUri, moodResult,
          resolved, playlistMood>>

(***************************************************************************)
(* Bounds of the model.                                                    *)
(***************************************************************************)
MaxLen == 3         \* longest candidate array drawn for the array functions
MaxItems == 1       \* most items in one search response
MaxRuns == 2        \* most repeated runs of a function on the same input
MaxCount == 4       \* largest count asked of getMultiplePlaylistsForMood
MaxBelowZero == 2   \* how far below zero the counts asked of getMultiplePlaylistsForMood go
MaxInFlight == 2    \* most handlers of the results screen running at a time

(***************************************************************************)
(* Strings.                                                                *)
(***************************************************************************)
\* the mapping of toLowerCase on one character
LowerChar(c) ==
    CASE c = "A" -> "a"
      [] c = "B" -> "b"
      [] c = "C" -> "c"
      [] c = "D" -> "d"
      [] c = "E" -> "e"
      [] c = "F" -> "f"
      [] c = "G" -> "g"
      [] c = "H" -> "h"
      [] c = "I" -> "i"
      [] c = "J" -> "j"
      [] c = "K" -> "k"
      [] c = "L" -> "l"
      [] c = "M" -> "m"
      [] c = "N" -> "n"
      [] c = "O" -> "o"
      [] c = "P" -> "p"
      [] c = "Q" -> "q"
      [] c = "R" -> "r"
      [] c = "S" -> "s"
      [] c = "T" -> "t"
      [] c = "U" -> "u"
      [] c = "V" -> "v"
      [] c = "W" -> "w"
      [] c = "X" -> "x"
      [] c = "Y" -> "y"
      [] c = "Z" -> "z"
      [] OTHER -> c

RECURSIVE ToLowerCase(_)
ToLowerCase(s) ==
    IF Len(s) = 0 THEN ""
    ELSE LowerChar(SubSeq(s, 1, 1)) \o ToLowerCase(SubSeq(s, 2, Len(s)))

\* String.prototype.includes
Includes(s, t) ==
    \E i \in 1..(Len(s) - Len(t) + 1) : SubSeq(s, i, i + Len(t) - 1) = t

Min(a, b) == IF a <= b THEN a ELSE b
Max(a, b) == IF a >= b THEN a ELSE b

\* a logarithm that stops growing at 1000
RECURSIVE Log10Saturating(_)
Log10Saturating(n) ==
    IF n < 10 THEN 0 ELSE IF n >= 1000 THEN 3 ELSE 1 + Log10Saturating(n \div 10)

\* floor(log10(n)) for n >= 1; equal to Math.log10(n) when n is a power of ten,
\* which every follower count of the model is.
RECURSIVE Log10(_)
Log10(n) == IF n < 10 THEN 0 ELSE 1 + Log10(n \div 10)

(***************************************************************************)
(* Results of a call.                                                      *)
(***************************************************************************)
Return(v) == [kind |-> "return", value |-> v]
Throw(m)  == [kind |-> "throw", message |-> m]
Undefined == "undefined"
TypeError == "TypeError"

(***************************************************************************)
(* SpotifyService (Web API variant): pure parts.                           *)
(***************************************************************************)
MOOD_TO_SEARCH_TERMS ==
    [m \in {"Happy", "Sad", "Calm", "Energetic", "Excited", "Peaceful"} |->
        CASE m = "Happy"     -> <<"happy", "upbeat", "cheerful", "feel good", "positive vibes">>
          [] m = "Sad"       -> <<"sad", "melancholy", "heartbreak", "emotional", "crying">>
          [] m = "Calm"      -> <<"calm", "relaxing", "peaceful", "chill", "ambient">>
          [] m = "Energetic" -> <<"energetic", "workout", "pump up", "high energy", "motivation">>
          [] m = "Excited"   -> <<"party", "dance", "celebration", "hype", "uplifting">>
          [] m = "Peaceful"  -> <<"peaceful", "meditation", "zen", "tranquil", "serene">>]

\* this.MOOD_TO_SEARCH_TERMS[mood] || [mood.toLowerCase()]
SearchTermsVerbatimFallback(mood) ==
    IF mood \in DOMAIN MOOD_TO_SEARCH_TERMS
    THEN MOOD_TO_SEARCH_TERMS[mood]
    ELSE <<mood>>
SearchTerms(mood) ==
    IF mood \in DOMAIN MOOD_TO_SEARCH_TERMS
    THEN MOOD_TO_SEARCH_TERMS[mood]
    ELSE <<ToLowerCase(mood)>>

RECURSIVE RemoveDupFrom(_, _)
RemoveDupFrom(playlists, seen) ==
    IF playlists = <<>> THEN <<>>
    ELSE LET p == Head(playlists) IN
         IF p.id \in seen
         THEN RemoveDupFrom(Tail(playlists), seen)
         ELSE <<p>> \o RemoveDupFrom(Tail(playlists), seen \cup {p.id})

RECURSIVE KeepLastFrom(_)
KeepLastFrom(playlists) ==
    IF playlists = <<>> THEN <<>>
    ELSE LET p == Head(playlists) IN
         IF \E i \in DOMAIN Tail(playlists) : Tail(playlists)[i].id = p.id
         THEN KeepLastFrom(Tail(playlists))
         ELSE <<p>> \o KeepLastFrom(Tail(playlists))

removeDuplicateKeepLast(playlists) == KeepLastFrom(playlists)
removeDuplicatePlaylists(playlists) == RemoveDupFrom(playlists, {})

\* the predicate of filterPlaylistsByQuality
QualityOkNoMaximum(p) ==
    /\ p.tracks >= 15
    /\ p.name # ""
    /\ ~Includes(ToLowerCase(p.name), "test")
QualityOkNoTestRule(p) ==
    /\ p.tracks >= 15
    /\ p.tracks <= 200
    /\ p.name # ""
QualityOk(p) ==
    /\ p.tracks >= 15
    /\ p.tracks <= 200
    /\ p.name # ""
    /\ ~Includes(ToLowerCase(p.name), "test")

filterPlaylistsByQuality(playlists) == SelectSeq(playlists, QualityOk)

\* a relevance that gives a containing text as much as an equal one
calculateNameRelevanceNoExactBonus(text, mood) ==
    IF text = "" THEN 0
    ELSE LET lowerText   == ToLowerCase(text)
             searchTerms == SearchTerms(mood)
             Gain(term)  == IF Includes(lowerText, ToLowerCase(term)) THEN 1000 ELSE 0
             Sum[i \in 0..Len(searchTerms)] ==
                 IF i = 0 THEN 0 ELSE Sum[i - 1] + Gain(searchTerms[i])
         IN  Min(Sum[Len(searchTerms)] \div Len(searchTerms), 1000)

\* a relevance that counts exact matches only
calculateNameRelevanceExactOnly(text, mood) ==
    IF text = "" THEN 0
    ELSE LET lowerText   == ToLowerCase(text)
             searchTerms == SearchTerms(mood)
             Gain(term)  == IF lowerText = ToLowerCase(term) THEN 1000 ELSE 0
             Sum[i \in 0..Len(searchTerms)] ==
                 IF i = 0 THEN 0 ELSE Sum[i - 1] + Gain(searchTerms[i])
         IN  Min(Sum[Len(searchTerms)] \div Len(searchTerms), 1000)

\* calculateNameRelevance, in thousandths
calculateNameRelevance(text, mood) ==
    IF text = "" THEN 0
    ELSE LET lowerText   == ToLowerCase(text)
             searchTerms == SearchTerms(mood)
             Gain(term)  == IF Includes(lowerText, ToLowerCase(term))
                            THEN (IF lowerText = ToLowerCase(term) THEN 1000 ELSE 500)
                            ELSE 0
             Sum[i \in 0..Len(searchTerms)] ==
                 IF i = 0 THEN 0 ELSE Sum[i - 1] + Gain(searchTerms[i])
         IN  Min(Sum[Len(searchTerms)] \div Len(searchTerms), 1000)

\* a track-count term without the smaller bonus of the wider band
TrackCountTermOneBand(trackCount) ==
    IF trackCount >= 15 /\ trackCount <= 150 THEN 20000 ELSE 0

\* the track-count term of calculatePlaylistScore, in thousandths
TrackCountTerm(trackCount) ==
    IF trackCount >= 30 /\ trackCount <= 100 THEN 20000
    ELSE IF trackCount >= 15 /\ trackCount <= 150 THEN 10000
    ELSE 0

\* calculatePlaylistScore, in thousandths
calculatePlaylistScore(playlist, mood) ==
    LET followers  == IF playlist.followers = 0 THEN 1 ELSE playlist.followers
        popularity == Log10(IF followers >= 1 THEN followers ELSE 1) * 10000
        trackCount == playlist.tracks
        trackTerm  == TrackCountTerm(trackCount)
        nameTerm   == calculateNameRelevance(playlist.name, mood) * 30
        descTerm   == IF playlist.description # ""
                      THEN calculateNameRelevance(playlist.description, mood) * 15
                      ELSE 0
        imageTerm  == IF playlist.images > 0 THEN 5000 ELSE 0
    IN  popularity + trackTerm + nameTerm + descTerm + imageTerm

\* the comparator of scoredPlaylists.sort: (a, b) => b.score - a.score
CompareAscending(a, b) == a.score - b.score
\* a comparator that reads what earlier runs left behind
CompareAfterEarlierRuns(a, b) ==
    IF runs = <<>> THEN b.score - a.score ELSE a.score - b.score
CompareScores(a, b) == b.score - a.score

\* Array.prototype.sort is stable: an element goes before the first element it
\* does not sort after.
RECURSIVE InsertSorted(_, _)
InsertSorted(x, sorted) ==
    IF sorted = <<>> THEN <<x>>
    ELSE IF CompareScores(x, Head(sorted)) <= 0
         THEN <<x>> \o sorted
         ELSE <<Head(sorted)>> \o InsertSorted(x, Tail(sorted))

\* a sort that puts the later of two equal elements first
RECURSIVE SortByScoreLaterFirst(_)
SortByScoreLaterFirst(scored) ==
    IF scored = <<>> THEN <<>>
    ELSE InsertSorted(scored[Len(scored)],
                      SortByScoreLaterFirst(SubSeq(scored, 1, Len(scored) - 1)))

RECURSIVE SortByScore(_)
SortByScore(scored) ==
    IF scored = <<>> THEN <<>>
    ELSE InsertSorted(Head(scored), SortByScore(Tail(scored)))

\* playlists.map((playlist) => ({ playlist, score }))
RECURSIVE ScorePlaylists(_, _)
ScorePlaylists(playlists, mood) ==
    IF playlists = <<>> THEN <<>>
    ELSE <<[playlist |-> Head(playlists),
            score |-> calculatePlaylistScore(Head(playlists), mood)]>>
         \o ScorePlaylists(Tail(playlists), mood)

selectBestPlaylist(playlists, mood) ==
    IF Len(playlists) = 0
    THEN Throw("No playlists available for selection")
    ELSE Return(SortByScore(ScorePlaylists(playlists, mood))[1].playlist)

\* Array.prototype.slice(0, end) for an integer end: a negative end counts
\* from the end of the array
SliceFromStart(array, end) ==
    LET k == IF end < 0 THEN Max(Len(array) + end, 0) ELSE Min(end, Len(array))
    IN  SubSeq(array, 1, k)

\* count: number = 3, the argument list being <<>> when the caller omits it
CountOf(arguments) == IF arguments = <<>> THEN 3 ELSE arguments[1]

\* getMultiplePlaylistsForMood once the search gave a non-empty array:
\* score, sort, slice(0, Math.min(count, length)), map to the identifiers
TopPlaylistsIgnoringCount(playlists, mood, count) ==
    LET scoredPlaylists == SortByScore(ScorePlaylists(playlists, mood))
    IN  [i \in 1..Min(3, Len(scoredPlaylists)) |-> scoredPlaylists[i].playlist.id]
TopPlaylists(playlists, mood, count) ==
    LET scoredPlaylists == SortByScore(ScorePlaylists(playlists, mood))
        topPlaylists    == SliceFromStart(scoredPlaylists, Min(count, Len(scoredPlaylists)))
    IN  [i \in DOMAIN topPlaylists |-> topPlaylists[i].playlist.id]

(***************************************************************************)
(* SpotifyService (mock variant): getMultiplePlaylistsForMood.  The moods  *)
(* of MOOD_PLAYLISTS are those of ALTERNATIVE_PLAYLISTS; for any other     *)
(* mood getPlaylistForMood answers the playlist of Happy.                  *)
(***************************************************************************)
MOOD_PLAYLISTS ==
    [m \in {"Happy", "Sad", "Calm", "Energetic", "Excited", "Peaceful"} |->
        CASE m = "Happy"     -> "37i9dQZF1DXdPec7aJc1u6"
          [] m = "Sad"       -> "37i9dQZF1DWSqBruwoIXkA"
          [] m = "Calm"      -> "37i9dQZF1DWU0ScTcjAxCX"
          [] m = "Energetic" -> "37i9dQZF1DX3rxVfSAhnEM"
          [] m = "Excited"   -> "37i9dQZF1DX0XUsuxWHRQd"
          [] m = "Peaceful"  -> "37i9dQZF1DX4sWSpwq3LiO"]

ALTERNATIVE_PLAYLISTS ==
    [m \in {"Happy", "Sad", "Calm", "Energetic", "Excited", "Peaceful"} |->
        CASE m = "Happy"     -> <<"37i9dQZF1DX0XUsuxWHRQd", "37i9dQZF1DXdPec7aJc1u6",
                                  "37i9dQZF1DX4fpCWaHOned">>
          [] m = "Sad"       -> <<"37i9dQZF1DWSqBruwoIXkA", "37i9dQZF1DX3YSRoSdA634",
                                  "37i9dQZF1DX7qK8ma5wgG1">>
          [] m = "Calm"      -> <<"37i9dQZF1DWU0ScTcjAxCX", "37i9dQZF1DX4sWSpwq3LiO",
                                  "37i9dQZF1DWZqd5JICZI0u">>
          [] m = "Energetic" -> <<"37i9dQZF1DX3rxVfSAhnEM", "37i9dQZF1DX0XUsuxWHRQd",
                                  "37i9dQZF1DXdxcBWuJkOwX">>
          [] m = "Excited"   -> <<"37i9dQZF1DX0XUsuxWHRQd", "37i9dQZF1DXdPec7aJc1u6",
                                  "37i9dQZF1DX3rxVfSAhnEM">>
          [] m = "Peaceful"  -> <<"37i9dQZF1DX4sWSpwq3LiO", "37i9dQZF1DWU0ScTcjAxCX",
                                  "37i9dQZF1DWZqd5JICZI0u">>]

\* the orders [...alternatives].sort(() => Math.random() - 0.5) can leave
Shuffles(alternatives) ==
    { [i \in DOMAIN alternatives |-> alternatives[order[i]]] :
        order \in { f \in [DOMAIN alternatives -> DOMAIN alternatives] :
                        \A i, j \in DOMAIN alternatives : i # j => f[i] # f[j] } }

\* what the mock getPlaylistForMood can answer
MockPlaylistsForMood(mood) ==
    IF mood \in DOMAIN MOOD_PLAYLISTS
    THEN {MOOD_PLAYLISTS[mood]} \cup
         (IF mood \in DOMAIN ALTERNATIVE_PLAYLISTS
          THEN { ALTERNATIVE_PLAYLISTS[mood][i] : i \in DOMAIN ALTERNATIVE_PLAYLISTS[mood] }
          ELSE {})
    ELSE {MOOD_PLAYLISTS["Happy"]}

\* what the mock getMultiplePlaylistsForMood can answer
MockMultiplePlaylists(mood, count) ==
    IF mood \notin DOMAIN ALTERNATIVE_PLAYLISTS \/ Len(ALTERNATIVE_PLAYLISTS[mood]) = 0
    THEN { <<primary>> : primary \in MockPlaylistsForMood(mood) }
    ELSE { SliceFromStart(shuffled, Min(count, Len(shuffled))) :
             shuffled \in Shuffles(ALTERNATIVE_PLAYLISTS[mood]) }

(***************************************************************************)
(* SpotifyService (mock variant): selectBestPlaylist.  Candidates carry a  *)
(* followers object; the sort is by follower count, highest first.         *)
(***************************************************************************)
MockSelectBestPlaylist(playlists, mood) ==
    LET kept   == SelectSeq(playlists, LAMBDA p : p.tracks > 20)
        ranked == SortByScore([i \in DOMAIN kept |->
                                  [playlist |-> kept[i], score |-> kept[i].followers]])
    IN  IF ranked = <<>> THEN Return(Undefined) ELSE Return(ranked[1].playlist)

(***************************************************************************)
(* SpotifyServiceStatic: pure parts.                                       *)
(***************************************************************************)
StaticMoodMap ==
    [m \in {"happy", "sad", "energetic", "calm", "angry", "romantic", "nostalgic", "excited"} |->
        CASE m = "happy"     -> <<"happy", "upbeat", "cheerful", "joyful", "positive">>
          [] m = "sad"       -> <<"sad", "melancholy", "emotional", "slow", "heartbreak">>
          [] m = "energetic" -> <<"energetic", "pump up", "workout", "high energy", "motivation">>
          [] m = "calm"      -> <<"calm", "relaxing", "chill", "peaceful", "ambient">>
          [] m = "angry"     -> <<"angry", "aggressive", "metal", "punk", "rage">>
          [] m = "romantic"  -> <<"romantic", "love", "slow dance", "valentine", "intimate">>
          [] m = "nostalgic" -> <<"nostalgic", "throwback", "classic", "memories", "vintage">>
          [] m = "excited"   -> <<"excited", "party", "celebration", "fun", "uplifting">>]

getMoodKeywords(mood) ==
    LET lowerMood == ToLowerCase(mood) IN
    IF lowerMood \in DOMAIN StaticMoodMap
    THEN StaticMoodMap[lowerMood]
    ELSE <<"music", "playlist", "good vibes">>

\* the filter applied to the items of one keyword's response
StaticKeeps(playlist, keyword) ==
    /\ playlist.tracks > 10
    /\ Includes(ToLowerCase(playlist.name), ToLowerCase(keyword))

StaticFilter(items, keyword) == SelectSeq(items, LAMBDA p : StaticKeeps(p, keyword))

\* the score of SpotifyServiceStatic.selectBestPlaylist, in thousandths
StaticScore(playlist, mood) ==
    LET moodKeywords == getMoodKeywords(mood)
        nameContainsMood ==
            \E i \in DOMAIN moodKeywords :
                Includes(ToLowerCase(playlist.name), ToLowerCase(moodKeywords[i]))
    IN  Min(playlist.tracks * 100, 10000)
        + (IF nameContainsMood THEN 5000 ELSE 0)
        + (IF playlist.description # "" THEN 2000 ELSE 0)
        + (IF playlist.images > 0 THEN 1000 ELSE 0)

\* scoredPlaylists[0].playlist: reading .playlist of undefined is a TypeError
StaticSelectBestPlaylist(playlists, mood) ==
    LET ranked == SortByScore([i \in DOMAIN playlists |->
                                  [playlist |-> playlists[i],
                                   score |-> StaticScore(playlists[i], mood)]])
    IN  IF ranked = <<>> THEN Throw(TypeError) ELSE Return(ranked[1].playlist)

(***************************************************************************)
(* SimpleSpotifyService: the filter of getPlaylistForMood.                 *)
(***************************************************************************)
SimpleKeeps(playlist) == playlist.tracks > 10

SimpleFilter(items) == SelectSeq(items, SimpleKeeps)

SimpleMoodSynonyms ==
    [m \in {"happy", "sad", "energetic", "calm", "angry", "romantic", "nostalgic"} |->
        CASE m = "happy"     -> <<"happy", "upbeat", "feel good", "positive", "joyful", "cheerful">>
          [] m = "sad"       -> <<"sad", "melancholy", "emotional", "heartbreak", "blue", "tears">>
          [] m = "energetic" -> <<"energetic", "workout", "pump up", "high energy", "intense", "power">>
          [] m = "calm"      -> <<"calm", "relaxing", "chill", "peaceful", "ambient", "zen">>
          [] m = "angry"     -> <<"angry", "rage", "intense", "aggressive", "metal", "rock">>
          [] m = "romantic"  -> <<"romantic", "love", "romance", "valentine", "couples">>
          [] m = "nostalgic" -> <<"nostalgic", "throwback", "classic", "retro", "old school">>]

\* SimpleSpotifyService.calculatePlaylistScore, in points
SimpleScore(playlist, mood) ==
    LET name        == ToLowerCase(playlist.name)
        description == ToLowerCase(playlist.description)
        moodLower   == ToLowerCase(mood)
        synonyms    == IF moodLower \in DOMAIN SimpleMoodSynonyms
                       THEN SimpleMoodSynonyms[moodLower]
                       ELSE <<moodLower>>
        Gain(synonym) == (IF Includes(name, synonym) THEN 20 ELSE 0)
                         + (IF Includes(description, synonym) THEN 10 ELSE 0)
        Sum[i \in 0..Len(synonyms)] ==
            IF i = 0 THEN 0 ELSE Sum[i - 1] + Gain(synonyms[i])
        trackCount  == playlist.tracks
    IN  (IF Includes(name, moodLower) THEN 50 ELSE 0)
        + (IF Includes(description, moodLower) THEN 30 ELSE 0)
        + Sum[Len(synonyms)]
        + (IF playlist.followers > 1000 THEN 10 ELSE 0)
        + (IF playlist.followers > 10000 THEN 5 ELSE 0)
        + (IF trackCount >= 20 /\ trackCount <= 100 THEN 15
           ELSE IF trackCount > 100 THEN 5 ELSE 0)

\* ({ ...playlist, score }): a new object with the fields of playlist and score
WithScore(playlist, score) ==
    [f \in DOMAIN playlist \cup {"score"} |-> IF f = "score" THEN score ELSE playlist[f]]

\* a selection that hands back the item of the response
SimpleSelectBestItem(items, mood) ==
    LET kept   == SimpleFilter(items)
        ranked == SortByScore([i \in DOMAIN kept |->
                                  [playlist |-> kept[i], score |-> SimpleScore(kept[i], mood)]])
    IN  IF ranked = <<>> THEN Return([null |-> TRUE]) ELSE Return(ranked[1].playlist)

\* SimpleSpotifyService.getPlaylistForMood once the response gave items:
\* filter, map to scored copies, sort, scoredPlaylists[0] or null
SimpleSelectBest(items, mood) ==
    LET kept   == SimpleFilter(items)
        scoredPlaylists ==
            SortByScore([i \in DOMAIN kept |-> WithScore(kept[i], SimpleScore(kept[i], mood))])
    IN  IF scoredPlaylists = <<>> THEN Return([null |-> TRUE]) ELSE Return(scoredPlaylists[1])

(***************************************************************************)
(* SpotifyStaticService: the keyword expansion of searchPlaylistsByMood.   *)
(***************************************************************************)
PostmanMoodKeywords ==
    [m \in {"Happy", "Sad", "Energetic", "Calm", "Angry", "Romantic", "Nostalgic"} |->
        CASE m = "Happy"     -> <<"happy", "upbeat", "cheerful", "positive", "joyful">>
          [] m = "Sad"       -> <<"sad", "melancholy", "blues", "emotional", "heartbreak">>
          [] m = "Energetic" -> <<"energetic", "workout", "pump up", "high energy", "dance">>
          [] m = "Calm"      -> <<"calm", "relaxing", "chill", "peaceful", "ambient">>
          [] m = "Angry"     -> <<"angry", "aggressive", "intense", "metal", "hardcore">>
          [] m = "Romantic"  -> <<"romantic", "love", "romantic dinner", "date night">>
          [] m = "Nostalgic" -> <<"nostalgic", "throwback", "oldies", "memories", "classic">>]

PostmanKeywords(mood) ==
    IF mood \in DOMAIN PostmanMoodKeywords
    THEN PostmanMoodKeywords[mood]
    ELSE <<ToLowerCase(mood)>>

(***************************************************************************)
(* Inputs of the pure functions.                                           *)
(***************************************************************************)
Ids == {"p1", "p2", "p3"}

Moods == {"Happy", "happy", "Jazz"}

\* candidates of the arrays: the first two tie under the mood Happy, and the
\* three have three different scores under the moods happy and Jazz
ArrayProfiles ==
    { [name |-> "Happy Hits", description |-> "", tracks |-> 50,
       followers |-> 1000, images |-> 1],
      [name |-> "Jazz Mix", description |-> "upbeat", tracks |-> 50,
       followers |-> 1000, images |-> 1],
      [name |-> "happy", description |-> "feel good music", tracks |-> 20,
       followers |-> 100000, images |-> 0] }

Playlist(id, prof) ==
    [id |-> id, name |-> prof.name, description |-> prof.description,
     tracks |-> prof.tracks, followers |-> prof.followers, images |-> prof.images]

ArrayCatalog == { Playlist(id, prof) : id \in Ids, prof \in ArrayProfiles }

\* single candidates over the whole range of each attribute
TrackCounts == {0, 10, 11, 14, 15, 16, 20, 21, 29, 30, 100, 101, 150, 151, 199, 200, 201}
Names == {"", "Happy Hits", "Greatest Hits", "TEST", "happy", "Jazz"}

\* follower counts: none, and powers of ten
FollowerCounts == {0, 1, 1000, 100000}

SingleCatalog ==
    { [id |-> "p1", name |-> n, description |-> d, tracks |-> t,
       followers |-> f, images |-> g] :
        n \in Names, d \in {"", "feel good music"}, t \in TrackCounts,
        f \in FollowerCounts, g \in {0, 1} }

SeqsUpTo(S, n) == UNION { [1..k -> S] : k \in 0..n }

\* arrays of four candidates with four identifiers, as a search can return them
FourCandidates ==
    { <<Playlist("p1", a), Playlist("p2", b), Playlist("p3", c), Playlist("p4", d)>> :
        a \in ArrayProfiles, b \in ArrayProfiles, c \in ArrayProfiles, d \in ArrayProfiles }

Inputs ==
    SeqsUpTo(ArrayCatalog, MaxLen) \cup { <<c>> : c \in SingleCatalog } \cup FourCandidates

\* the count arguments of getMultiplePlaylistsForMood: omitted, or a number
CountArguments == { <<>> } \cup { <<k>> : k \in (0 - MaxBelowZero)..MaxCount }

(***************************************************************************)
(* The pure functions applied to drawn inputs.                             *)
(***************************************************************************)
PureInit ==
    /\ input \in Inputs
    /\ moodIn \in Moods
    /\ fn = "none"
    /\ out = <<>>
    /\ runs = <<>>
    /\ countIn = <<>>

PureIdle ==
    /\ input = <<>>
    /\ moodIn = ""
    /\ fn = "none"
    /\ out = <<>>
    /\ runs = <<>>
    /\ countIn = <<>>

Apply(f, returned) ==
    /\ fn = "none"
    /\ fn' = f
    /\ out' = returned
    /\ UNCHANGED <<input, moodIn, runs, countIn>>
    /\ UNCHANGED <<svcVars, staticVars, screenVars>>

CallSelectBestPlaylist == Apply("selectBestPlaylist", selectBestPlaylist(input, moodIn))

CallStaticSelectBestPlaylist ==
    Apply("StaticSelectBestPlaylist", StaticSelectBestPlaylist(input, moodIn))

CallMockSelectBestPlaylist ==
    Apply("MockSelectBestPlaylist", MockSelectBestPlaylist(input, moodIn))

\* one more run of selectBestPlaylist on the same array and mood: what it
\* selected and the scores calculatePlaylistScore gave
Run(playlists, mood) ==
    [selected |-> selectBestPlaylist(playlists, mood),
     scores |-> [i \in DOMAIN playlists |-> calculatePlaylistScore(playlists[i], mood)]]

CallSelectBestPlaylistAgain ==
    /\ fn = "selectBestPlaylist"
    /\ Len(runs) < MaxRuns
    /\ runs' = Append(runs, Run(input, moodIn))
    /\ UNCHANGED <<input, moodIn, fn, out, countIn>>
    /\ UNCHANGED <<svcVars, staticVars, screenVars>>

\* the scoring part of getMultiplePlaylistsForMood, on an array as
\* searchPlaylistsByMood returns it: deduplicated, filtered and not empty
CallTopPlaylists ==
    /\ fn = "none"
    /\ input # <<>>
    /\ input = filterPlaylistsByQuality(removeDuplicatePlaylists(input))
    /\ \E arguments \in CountArguments :
           /\ countIn' = arguments
           /\ out' = TopPlaylists(input, moodIn, CountOf(arguments))
    /\ fn' = "getMultiplePlaylistsForMood"
    /\ UNCHANGED <<input, moodIn, runs>>
    /\ UNCHANGED <<svcVars, staticVars, screenVars>>

\* the mock getMultiplePlaylistsForMood, which takes no candidate array
CallMockMultiplePlaylists ==
    /\ fn = "none"
    /\ input = <<>>
    /\ \E arguments \in CountArguments :
           /\ countIn' = arguments
           /\ out' \in MockMultiplePlaylists(moodIn, CountOf(arguments))
    /\ fn' = "MockGetMultiplePlaylistsForMood"
    /\ UNCHANGED <<input, moodIn, runs>>
    /\ UNCHANGED <<svcVars, staticVars, screenVars>>

CallCalculatePlaylistScore ==
    /\ Len(input) = 1
    /\ Apply("calculatePlaylistScore", calculatePlaylistScore(input[1], moodIn))

\* calculateNameRelevance on the name of a single candidate
CallCalculateNameRelevance ==
    /\ Len(input) = 1
    /\ Apply("calculateNameRelevance", calculateNameRelevance(input[1].name, moodIn))

CallRemoveDuplicatePlaylists ==
    Apply("removeDuplicatePlaylists", removeDuplicatePlaylists(input))

CallFilterPlaylistsByQuality ==
    Apply("filterPlaylistsByQuality", filterPlaylistsByQuality(input))

CallStaticFilter ==
    \E i \in DOMAIN getMoodKeywords(moodIn) :
        Apply("StaticFilter", StaticFilter(input, getMoodKeywords(moodIn)[i]))

CallSimpleFilter == Apply("SimpleFilter", SimpleFilter(input))

CallSimpleSelectBest == Apply("SimpleSelectBest", SimpleSelectBest(input, moodIn))

CallSearchTerms == Apply("SearchTerms", SearchTerms(moodIn))

CallGetMoodKeywords == Apply("getMoodKeywords", getMoodKeywords(moodIn))

CallPostmanKeywords == Apply("PostmanKeywords", PostmanKeywords(moodIn))

PureNext ==
    \/ CallSelectBestPlaylist
    \/ CallSelectBestPlaylistAgain
    \/ CallTopPlaylists
    \/ CallMockMultiplePlaylists
    \/ CallCalculatePlaylistScore
    \/ CallCalculateNameRelevance
    \/ CallStaticSelectBestPlaylist
    \/ CallMockSelectBestPlaylist
    \/ CallRemoveDuplicatePlaylists
    \/ CallFilterPlaylistsByQuality
    \/ CallStaticFilter
    \/ CallSimpleFilter
    \/ CallSimpleSelectBest
    \/ CallSearchTerms
    \/ CallGetMoodKeywords
    \/ CallPostmanKeywords


(***************************************************************************)
(* SpotifyAuthService.authenticate and SpotifyService.getPlaylistForMood   *)
(* as one call, suspended at each await of a network request or of the     *)
(* authorization prompt.                                                   *)
(***************************************************************************)
Null == [null |-> TRUE]
Pending == [kind |-> "pending"]

Tokens(access, refresh) == [access_token |-> access, refresh_token |-> refresh]

\* what the token endpoint answers with status 200; refresh_token may be absent
TokenResponses == { Tokens("tokB", "refB"), Tokens("tokB", "") }

StoredAtStart == { Null, Tokens("tokA", "refA"), Tokens("tokA", "") }

\* the playlists the search endpoint can return
SearchCatalog ==
    { [id |-> "p1", name |-> "Happy Hits", description |-> "", tracks |-> 50,
       followers |-> 1000, images |-> 1],
      [id |-> "p2", name |-> "happy", description |-> "feel good music", tracks |-> 20,
       followers |-> 100000, images |-> 0],
      [id |-> "p3", name |-> "Greatest Hits", description |-> "", tracks |-> 14,
       followers |-> 10, images |-> 1] }

\* a response to a search request: status 200 with items, another status, or
\* no response at all (fetch rejects)
Ok(items) == [status |-> "ok", items |-> items]
NotOk == [status |-> "not ok"]
NetworkError == [status |-> "network error"]

SearchResponses ==
    { Ok(items) : items \in SeqsUpTo(SearchCatalog, MaxItems) } \cup {NotOk, NetworkError}

ServiceMoods == {"Happy", "Jazz"}

SvcIdle ==
    /\ configured = TRUE
    /\ stored = Null
    /\ pc = "idle"
    /\ callMood = ""
    /\ accessToken = ""
    /\ termIdx = 0
    /\ allPlaylists = <<>>
    /\ foundPlaylists = <<>>
    /\ raised = ""
    /\ result = Pending
    /\ requests = <<>>
    /\ responses = <<>>
    /\ multiPc = "idle"
    /\ multiCount = <<>>
    /\ multiResult = Pending
    /\ authSteps = <<>>

SvcInit ==
    /\ configured \in BOOLEAN
    /\ stored \in StoredAtStart
    /\ pc = "idle"
    /\ callMood = ""
    /\ accessToken = ""
    /\ termIdx = 0
    /\ allPlaylists = <<>>
    /\ foundPlaylists = <<>>
    /\ raised = ""
    /\ result = Pending
    /\ requests = <<>>
    /\ responses = <<>>
    /\ multiPc = "idle"
    /\ multiCount = <<>>
    /\ multiResult = Pending
    /\ authSteps = <<>>

ValidateRequest(token) == [kind |-> "validate", token |-> token]
RefreshRequest(refresh) == [kind |-> "refresh", refresh_token |-> refresh]
ExchangeRequest(code) == [kind |-> "exchange", code |-> code]
SearchRequest(term, token) == [kind |-> "search", term |-> term, token |-> token]

\* searchTerms.slice(0, 3)
TermsToSearch(m) == SubSeq(SearchTerms(m), 1, Min(3, Len(SearchTerms(m))))

\* the catch block of getPlaylistForMood
CatchHandlerAlwaysAuthentication(message) ==
    Throw("Please authenticate with Spotify to get personalized playlists")
CatchHandler(message) ==
    IF message = "Authentication required"
    THEN Throw("Please authenticate with Spotify to get personalized playlists")
    ELSE Throw("Failed to get playlist for mood")

\* if (!accessToken)
AccessTokenMissing(token) == token = ""

\* getAccessToken: tokens?.access_token || null, the empty string standing for null
getAccessToken(tokens) == IF tokens = Null THEN "" ELSE tokens.access_token

\* getMultiplePlaylistsForMood ends: it returns, or its catch block rethrows
\* what it caught
MultipleEnds(outcome) ==
    /\ multiResult' = outcome
    /\ multiPc' = "done"

\* getPlaylistForMood settles with outcome, message being what its catch block
\* got; a getMultiplePlaylistsForMood that awaits it goes on in the same turn:
\* return [singlePlaylist], or rethrow
Settle(outcome, message) ==
    /\ raised' = message
    /\ result' = outcome
    /\ pc' = "done"
    /\ IF multiPc = "fallback"
       THEN MultipleEnds(IF outcome.kind = "throw"
                         THEN outcome
                         ELSE Return(<<outcome.value>>))
       ELSE UNCHANGED <<multiPc, multiResult>>

\* getPlaylistForMood fails inside its try block
Fail(message) == Settle(CatchHandler(message), message)

\* getMultiplePlaylistsForMood fails before its search
MultipleFail(message) ==
    /\ MultipleEnds(Throw(message))
    /\ pc' = "done"
    /\ UNCHANGED <<raised, result>>

\* if (existingTokens?.refresh_token)
CanRefreshNever(tokens) == FALSE
CanRefresh(tokens) == tokens.refresh_token # ""

\* authenticate passed validateConfig and read the stored tokens: it awaits
\* the validation of the stored access token, or shows the prompt
AuthenticateStarts(existingTokens) ==
    IF existingTokens # Null THEN <<"authenticate">> ELSE <<"authenticate", "prompt">>

\* getPlaylistForMood called by getMultiplePlaylistsForMood: authenticate runs
\* up to its first await (validateConfig passed at the start of the operation)
FallbackStart ==
    /\ multiPc' = "fallback"
    /\ IF stored # Null
       THEN /\ pc' = "validating"
            /\ requests' = Append(requests, ValidateRequest(stored.access_token))
       ELSE /\ pc' = "prompting"
            /\ requests' = requests
    /\ authSteps' = authSteps \o AuthenticateStarts(stored)
    /\ UNCHANGED <<termIdx, raised, result, multiResult>>

\* searchPlaylistsByMood returned found to getPlaylistForMood or to
\* getMultiplePlaylistsForMood
AfterSearch(found) ==
    /\ foundPlaylists' = found
    /\ IF multiPc = "first"
       THEN IF Len(found) = 0
            THEN FallbackStart
            ELSE /\ MultipleEnds(Return(TopPlaylists(found, callMood, CountOf(multiCount))))
                 /\ pc' = "done"
                 /\ UNCHANGED <<termIdx, requests, raised, result, authSteps>>
       ELSE /\ IF Len(found) = 0
               THEN Fail("No playlists found for this mood")
               ELSE Settle(Return(selectBestPlaylist(found, callMood).value.id), "")
            /\ UNCHANGED <<termIdx, requests, authSteps>>

\* the caller of getAccessToken (getPlaylistForMood or, before its own search,
\* getMultiplePlaylistsForMood) got tokens (Null for null): it fails, or
\* searchPlaylistsByMood issues the request of the first term
AfterAuthenticate(tokens, issued) ==
    /\ accessToken' = getAccessToken(tokens)
    /\ IF AccessTokenMissing(getAccessToken(tokens))
       THEN /\ IF multiPc = "first"
               THEN MultipleFail("Authentication required")
               ELSE Fail("Authentication required")
            /\ requests' = issued
            /\ UNCHANGED <<termIdx, allPlaylists, foundPlaylists, responses>>
       ELSE /\ pc' = "searching"
            /\ termIdx' = 1
            /\ allPlaylists' = <<>>
            /\ requests' = Append(issued,
                   SearchRequest(TermsToSearch(callMood)[1], getAccessToken(tokens)))
            /\ UNCHANGED <<foundPlaylists, raised, result, responses, multiPc, multiResult>>
    /\ UNCHANGED multiCount

\* storeTokens: a failure of SecureStore is logged and swallowed
StoreTokens(tokens, storeOk) ==
    stored' = IF storeOk THEN tokens ELSE stored

\* the caller invokes getPlaylistForMood(mood); authenticate runs up to its first
\* await of the network or of the prompt
Start(m) ==
    /\ pc = "idle"
    /\ multiPc = "idle"
    /\ UNCHANGED <<multiPc, multiCount, multiResult>>
    /\ callMood' = m
    /\ responses' = <<>>
    /\ authSteps' = IF ~configured
                    THEN <<"authenticate", "configuration invalid">>
                    ELSE AuthenticateStarts(stored)
    /\ IF ~configured
       THEN \* validateConfig throws; authenticate catches it and returns null
            /\ accessToken' = ""
            /\ raised' = "Authentication required"
            /\ result' = CatchHandler("Authentication required")
            /\ pc' = "done"
            /\ requests' = <<>>
            /\ UNCHANGED <<termIdx, allPlaylists, foundPlaylists>>
       ELSE IF stored # Null
       THEN /\ pc' = "validating"
            /\ requests' = <<ValidateRequest(stored.access_token)>>
            /\ UNCHANGED <<accessToken, termIdx, allPlaylists, foundPlaylists, raised, result>>
       ELSE /\ pc' = "prompting"
            /\ requests' = <<>>
            /\ UNCHANGED <<accessToken, termIdx, allPlaylists, foundPlaylists, raised, result>>
    /\ UNCHANGED <<configured, stored>>
    /\ UNCHANGED <<pureVars, staticVars, screenVars>>

\* isTokenValid got its answer: valid is response.ok, FALSE also when fetch rejects
ValidateResponse(valid) ==
    /\ pc = "validating"
    /\ authSteps' = IF valid THEN Append(authSteps, "validated")
                    ELSE IF CanRefresh(stored) THEN Append(authSteps, "validation failed")
                    ELSE authSteps \o <<"validation failed", "prompt">>
    /\ IF valid
       THEN AfterAuthenticate(stored, requests)
       ELSE IF CanRefresh(stored)
       THEN /\ pc' = "refreshing"
            /\ requests' = Append(requests, RefreshRequest(stored.refresh_token))
            /\ UNCHANGED <<accessToken, termIdx, allPlaylists, foundPlaylists, raised,
                           result, responses, multiPc, multiCount, multiResult>>
       ELSE /\ pc' = "prompting"
            /\ UNCHANGED <<accessToken, termIdx, allPlaylists, foundPlaylists, raised,
                           result, requests, responses, multiPc, multiCount, multiResult>>
    /\ UNCHANGED <<configured, stored, callMood>>
    /\ UNCHANGED <<pureVars, staticVars, screenVars>>

\* refreshAccessToken, given the token endpoint's tokens
RefreshedTokensAsReceived(received, refreshToken) == received
RefreshedTokens(received, refreshToken) ==
    IF received.refresh_token = ""
    THEN Tokens(received.access_token, refreshToken)
    ELSE received

\* refreshAccessToken got the token endpoint's answer
RefreshResponseOk(received, storeOk) ==
    /\ pc = "refreshing"
    /\ LET tokens == RefreshedTokens(received, stored.refresh_token) IN
       /\ StoreTokens(tokens, storeOk)
       /\ AfterAuthenticate(tokens, requests)
    /\ authSteps' = Append(authSteps, "refreshed")
    /\ UNCHANGED <<configured, callMood>>
    /\ UNCHANGED <<pureVars, staticVars, screenVars>>

\* the refresh request failed (another status, or fetch rejected):
\* refreshAccessToken returns null and authenticate goes on to the prompt
RefreshResponseFailed ==
    /\ pc = "refreshing"
    /\ pc' = "prompting"
    /\ authSteps' = authSteps \o <<"refresh failed", "prompt">>
    /\ UNCHANGED <<configured, stored, callMood, accessToken, termIdx, allPlaylists,
                   foundPlaylists, raised, result, requests, responses,
                   multiPc, multiCount, multiResult>>
    /\ UNCHANGED <<pureVars, staticVars, screenVars>>

\* promptAsync resolved with a code
PromptSuccess ==
    /\ pc = "prompting"
    /\ pc' = "exchanging"
    /\ authSteps' = Append(authSteps, "code")
    /\ requests' = Append(requests, ExchangeRequest("code"))
    /\ UNCHANGED <<configured, stored, callMood, accessToken, termIdx, allPlaylists,
                   foundPlaylists, raised, result, responses,
                   multiPc, multiCount, multiResult>>
    /\ UNCHANGED <<pureVars, staticVars, screenVars>>

\* promptAsync resolved without a code (cancel, dismiss, error) or rejected:
\* authenticate returns null
PromptFailed ==
    /\ pc = "prompting"
    /\ AfterAuthenticate(Null, requests)
    /\ authSteps' = Append(authSteps, "no code")
    /\ UNCHANGED <<configured, stored, callMood>>
    /\ UNCHANGED <<pureVars, staticVars, screenVars>>

\* exchangeCodeForTokens got the token endpoint's answer
ExchangeResponseOk(received, storeOk) ==
    /\ pc = "exchanging"
    /\ StoreTokens(received, storeOk)
    /\ AfterAuthenticate(received, requests)
    /\ authSteps' = Append(authSteps, "exchanged")
    /\ UNCHANGED <<configured, callMood>>
    /\ UNCHANGED <<pureVars, staticVars, screenVars>>

ExchangeResponseFailed ==
    /\ pc = "exchanging"
    /\ AfterAuthenticate(Null, requests)
    /\ authSteps' = Append(authSteps, "exchange failed")
    /\ UNCHANGED <<configured, stored, callMood>>
    /\ UNCHANGED <<pureVars, staticVars, screenVars>>

\* the loop of searchPlaylistsByMood after the response to the current term
\* was handled, merged being allPlaylists now
ContinueSearchTwoAtOnce(merged) ==
    /\ allPlaylists' = merged
    /\ IF termIdx < Len(TermsToSearch(callMood))
       THEN /\ termIdx' = termIdx + 1
            /\ requests' =
                   IF termIdx + 1 < Len(TermsToSearch(callMood))
                   THEN requests \o
                        <<SearchRequest(TermsToSearch(callMood)[termIdx + 1], accessToken),
                          SearchRequest(TermsToSearch(callMood)[termIdx + 2], accessToken)>>
                   ELSE Append(requests,
                            SearchRequest(TermsToSearch(callMood)[termIdx + 1], accessToken))
            /\ UNCHANGED <<pc, foundPlaylists, raised, result, multiPc, multiResult,
                           authSteps>>
       ELSE AfterSearch(filterPlaylistsByQuality(removeDuplicatePlaylists(merged)))
\* a loop that starts over from the first term until a response had an item
ContinueSearchUntilFound(merged) ==
    /\ allPlaylists' = merged
    /\ IF termIdx < Len(TermsToSearch(callMood))
       THEN /\ termIdx' = termIdx + 1
            /\ requests' = Append(requests,
                   SearchRequest(TermsToSearch(callMood)[termIdx + 1], accessToken))
            /\ UNCHANGED <<pc, foundPlaylists, raised, result, multiPc, multiResult,
                           authSteps>>
       ELSE IF merged = <<>>
       THEN /\ termIdx' = 1
            /\ requests' = Append(requests,
                   SearchRequest(TermsToSearch(callMood)[1], accessToken))
            /\ UNCHANGED <<pc, foundPlaylists, raised, result, multiPc, multiResult,
                           authSteps>>
       ELSE AfterSearch(filterPlaylistsByQuality(removeDuplicatePlaylists(merged)))
ContinueSearch(merged) ==
    /\ allPlaylists' = merged
    /\ IF termIdx < Len(TermsToSearch(callMood))
       THEN /\ termIdx' = termIdx + 1
            /\ requests' = Append(requests,
                   SearchRequest(TermsToSearch(callMood)[termIdx + 1], accessToken))
            /\ UNCHANGED <<pc, foundPlaylists, raised, result, multiPc, multiResult,
                           authSteps>>
       ELSE AfterSearch(filterPlaylistsByQuality(removeDuplicatePlaylists(merged)))

\* the search request of the current term got a response
SearchResponse(r) ==
    /\ pc = "searching"
    /\ responses' = Append(responses, r)
    /\ CASE r.status = "ok" -> ContinueSearch(allPlaylists \o r.items)
         [] r.status = "not ok" -> ContinueSearch(allPlaylists)
         [] r.status = "network error" ->
                \* the catch block around the whole loop returns []
                /\ AfterSearch(<<>>)
                /\ UNCHANGED allPlaylists
    /\ UNCHANGED <<configured, stored, callMood, accessToken, multiCount>>
    /\ UNCHANGED <<pureVars, staticVars, screenVars>>

\* the caller got its answer; the next call starts from the stored tokens
Finish ==
    /\ pc = "done"
    /\ multiPc = "idle"
    /\ UNCHANGED <<multiPc, multiCount, multiResult>>
    /\ pc' = "idle"
    /\ callMood' = ""
    /\ accessToken' = ""
    /\ termIdx' = 0
    /\ allPlaylists' = <<>>
    /\ foundPlaylists' = <<>>
    /\ raised' = ""
    /\ result' = Pending
    /\ requests' = <<>>
    /\ responses' = <<>>
    /\ authSteps' = <<>>
    /\ UNCHANGED <<configured, stored>>
    /\ UNCHANGED <<pureVars, staticVars, screenVars>>

\* the caller invokes getMultiplePlaylistsForMood(mood, count); authenticate
\* runs up to its first await of the network or of the prompt
StartMultiple(m, arguments) ==
    /\ pc = "idle"
    /\ multiPc = "idle"
    /\ callMood' = m
    /\ multiCount' = arguments
    /\ responses' = <<>>
    /\ authSteps' = IF ~configured
                    THEN <<"authenticate", "configuration invalid">>
                    ELSE AuthenticateStarts(stored)
    /\ IF ~configured
       THEN \* validateConfig throws; authenticate catches it and returns null
            /\ accessToken' = ""
            /\ MultipleFail("Authentication required")
            /\ requests' = <<>>
            /\ UNCHANGED <<termIdx, allPlaylists, foundPlaylists>>
       ELSE IF stored # Null
       THEN /\ pc' = "validating"
            /\ multiPc' = "first"
            /\ requests' = <<ValidateRequest(stored.access_token)>>
            /\ UNCHANGED <<accessToken, termIdx, allPlaylists, foundPlaylists, raised,
                           result, multiResult>>
       ELSE /\ pc' = "prompting"
            /\ multiPc' = "first"
            /\ requests' = <<>>
            /\ UNCHANGED <<accessToken, termIdx, allPlaylists, foundPlaylists, raised,
                           result, multiResult>>
    /\ UNCHANGED <<configured, stored>>
    /\ UNCHANGED <<pureVars, staticVars, screenVars>>

\* the caller of getMultiplePlaylistsForMood got its answer
FinishMultiple ==
    /\ multiPc = "done"
    /\ multiPc' = "idle"
    /\ multiCount' = <<>>
    /\ multiResult' = Pending
    /\ pc' = "idle"
    /\ callMood' = ""
    /\ accessToken' = ""
    /\ termIdx' = 0
    /\ allPlaylists' = <<>>
    /\ foundPlaylists' = <<>>
    /\ raised' = ""
    /\ result' = Pending
    /\ requests' = <<>>
    /\ responses' = <<>>
    /\ authSteps' = <<>>
    /\ UNCHANGED <<configured, stored>>
    /\ UNCHANGED <<pureVars, staticVars, screenVars>>

MultipleMoods == {"Happy", "Jazz"}

\* the count arguments and the search responses of the operation: the count
\* omitted or 1; no item, one item that passes the filter, another status,
\* no response
MultipleCounts == { <<>>, <<1>> }

MultipleResponses ==
    { Ok(<<>>), NotOk, NetworkError } \cup { Ok(<<c>>) : c \in { x \in SearchCatalog : x.id = "p1" } }

NextMultiple ==
    \/ \E m \in MultipleMoods, arguments \in MultipleCounts : StartMultiple(m, arguments)
    \/ \E valid \in BOOLEAN : ValidateResponse(valid)
    \/ \E received \in TokenResponses, storeOk \in BOOLEAN :
           RefreshResponseOk(received, storeOk)
    \/ RefreshResponseFailed
    \/ PromptSuccess
    \/ PromptFailed
    \/ \E received \in TokenResponses, storeOk \in BOOLEAN :
           ExchangeResponseOk(received, storeOk)
    \/ ExchangeResponseFailed
    \/ \E r \in MultipleResponses : SearchResponse(r)
    \/ FinishMultiple

Next ==
    \/ \E m \in ServiceMoods : Start(m)
    \/ \E valid \in BOOLEAN : ValidateResponse(valid)
    \/ \E received \in TokenResponses, storeOk \in BOOLEAN :
           RefreshResponseOk(received, storeOk)
    \/ RefreshResponseFailed
    \/ PromptSuccess
    \/ PromptFailed
    \/ \E received \in TokenResponses, storeOk \in BOOLEAN :
           ExchangeResponseOk(received, storeOk)
    \/ ExchangeResponseFailed
    \/ \E r \in SearchResponses : SearchResponse(r)
    \/ Finish

\* what a suspended getPlaylistForMood waits for: the answer to the request
\* it issued last, or the outcome of the authorization prompt.  The rejected
\* fetch of a search request comes first and again among SearchResponses: it
\* is the answer that shows with the least computation that one is possible.
Response ==
    \/ SearchResponse(NetworkError)
    \/ \E valid \in BOOLEAN : ValidateResponse(valid)
    \/ \E received \in TokenResponses, storeOk \in BOOLEAN :
           RefreshResponseOk(received, storeOk)
    \/ RefreshResponseFailed
    \/ PromptSuccess
    \/ PromptFailed
    \/ \E received \in TokenResponses, storeOk \in BOOLEAN :
           ExchangeResponseOk(received, storeOk)
    \/ ExchangeResponseFailed
    \/ \E r \in SearchResponses : SearchResponse(r)

(***************************************************************************)
(* SpotifyServiceStatic.getPlaylistForMood as one call, suspended at the   *)
(* await of each search request; setAccessToken may run while it is        *)
(* suspended.                                                              *)
(***************************************************************************)
Placeholder == "YOUR_ACCESS_TOKEN_FROM_POSTMAN_HERE"

StaticTokens == {"tokA", "tokB"}

StaticMoods == {"happy", "Jazz"}

StaticCatalog ==
    { [id |-> "p1", name |-> "Happy Upbeat Mix", description |-> "", tracks |-> 50,
       followers |-> 0, images |-> 1],
      [id |-> "p2", name |-> "upbeat", description |-> "", tracks |-> 10,
       followers |-> 0, images |-> 0],
      [id |-> "p3", name |-> "Good Vibes Playlist", description |-> "chill", tracks |-> 30,
       followers |-> 0, images |-> 1] }

StaticResponses ==
    { Ok(items) : items \in SeqsUpTo(StaticCatalog, MaxItems) } \cup {NotOk, NetworkError}

StaticIdle ==
    /\ ACCESS_TOKEN = Placeholder
    /\ stPc = "idle"
    /\ stMood = ""
    /\ stIdx = 0
    /\ stAll = <<>>
    /\ stResult = Pending
    /\ stRequests = <<>>
    /\ stReceived = 0

setAccessToken(token) ==
    /\ ACCESS_TOKEN' = token
    /\ UNCHANGED <<stPc, stMood, stIdx, stAll, stResult, stRequests, stReceived>>
    /\ UNCHANGED <<pureVars, svcVars, screenVars>>

\* the caller invokes SpotifyServiceStatic.getPlaylistForMood(mood)
StaticStart(m) ==
    /\ stPc = "idle"
    /\ stMood' = m
    /\ stAll' = <<>>
    /\ stReceived' = 0
    /\ IF ACCESS_TOKEN = Placeholder
       THEN /\ stPc' = "done"
            /\ stResult' = Return(Null)
            /\ stIdx' = 0
            /\ stRequests' = <<>>
       ELSE /\ stPc' = "searching"
            /\ stResult' = Pending
            /\ stIdx' = 1
            /\ stRequests' = <<SearchRequest(getMoodKeywords(m)[1], ACCESS_TOKEN)>>
    /\ UNCHANGED ACCESS_TOKEN
    /\ UNCHANGED <<pureVars, svcVars, screenVars>>

\* getPlaylistForMood after searchPlaylistsByMood returned list
StaticAfterSearch(list) ==
    stResult' = IF Len(list) = 0
                THEN Return(Null)
                ELSE LET best == StaticSelectBestPlaylist(list, stMood) IN
                     \* a throw of selectBestPlaylist is caught: return null
                     IF best.kind = "throw" THEN Return(Null) ELSE best

\* the search request of the current keyword got a response; a status other
\* than 200 and a rejected fetch are both caught inside the loop
StaticSearchResponse(r) ==
    /\ stPc = "searching"
    /\ stReceived' = stReceived + 1
    /\ LET keywords == getMoodKeywords(stMood)
           merged == IF r.status = "ok"
                     THEN stAll \o StaticFilter(r.items, keywords[stIdx])
                     ELSE stAll
       IN  /\ stAll' = merged
           /\ IF stIdx < Len(keywords)
              THEN /\ stIdx' = stIdx + 1
                   /\ stRequests' = Append(stRequests,
                          SearchRequest(keywords[stIdx + 1], ACCESS_TOKEN))
                   /\ UNCHANGED <<stPc, stResult>>
              ELSE /\ stPc' = "done"
                   /\ StaticAfterSearch(merged)
                   /\ UNCHANGED <<stIdx, stRequests>>
    /\ UNCHANGED <<ACCESS_TOKEN, stMood>>
    /\ UNCHANGED <<pureVars, svcVars, screenVars>>

StaticFinish ==
    /\ stPc = "done"
    /\ stPc' = "idle"
    /\ stMood' = ""
    /\ stIdx' = 0
    /\ stAll' = <<>>
    /\ stResult' = Pending
    /\ stRequests' = <<>>
    /\ stReceived' = 0
    /\ UNCHANGED ACCESS_TOKEN
    /\ UNCHANGED <<pureVars, svcVars, screenVars>>

(***************************************************************************)
(* ResultsScreen: analyzeMood and handleSpotifyAuth, suspended at each      *)
(* await.  results.tsx resolves with SpotifyService, the ResultsScreen of   *)
(* _layout.tsx with SimpleSpotifyService.                                   *)
(***************************************************************************)
\* VisionService.MOOD_CATEGORIES, of which analyzeImage returns one
MOOD_CATEGORIES == {"Happy", "Sad", "Calm", "Energetic", "Excited", "Peaceful"}

AuthenticateMessage == "Please authenticate with Spotify to get personalized playlists"

AnalyzeFailedMessage == "Failed to analyze mood. Please try again."

\* what SpotifyService.getPlaylistForMood can give its caller, with what the
\* resolution found
SpotifyServiceResolutions ==
    { [finds |-> "playlist", outcome |-> Return(id)] : id \in {"p1", "p2"} }
    \cup { [finds |-> "nothing", outcome |-> CatchHandler("No playlists found for this mood")],
           [finds |-> "no token", outcome |-> CatchHandler("Authentication required")] }

\* what SimpleSpotifyService.getPlaylistForMood can give: the best playlist
\* (spotify being its external_urls.spotify, "" when absent), or null when
\* the request failed or nothing passed the filter
SimpleResolutions ==
    { [finds |-> "playlist", outcome |-> Return([id |-> "p1", spotify |-> url])] :
        url \in {"https://open.spotify.com/playlist/p1", ""} }
    \cup { [finds |-> "nothing", outcome |-> Return(Null)] }

\* the places for running handlers
Handlers == 1..MaxInFlight

ScreenIdle ==
    /\ scrVariant = "results"
    /\ scrPc = [h \in Handlers |-> "idle"]
    /\ scrMood = [h \in Handlers |-> ""]
    /\ loading = TRUE
    /\ error = ""
    /\ needsAuth = FALSE
    /\ playlistUri = ""
    /\ moodResult = ""
    /\ resolved = "none"
    /\ playlistMood = ""

\* the component as useState leaves it, in either variant
ScreenInit ==
    /\ scrVariant \in {"results", "layout"}
    /\ scrPc = [h \in Handlers |-> "idle"]
    /\ scrMood = [h \in Handlers |-> ""]
    /\ loading = TRUE
    /\ error = ""
    /\ needsAuth = FALSE
    /\ playlistUri = ""
    /\ moodResult = ""
    /\ resolved = "none"
    /\ playlistMood = ""

\* the catch block of analyzeMood
AnalyzeMoodCatch(message) ==
    IF Includes(message, "Authentication required") \/ Includes(message, "authenticate")
    THEN /\ needsAuth' = TRUE
         /\ error' = AuthenticateMessage
    ELSE /\ error' = AnalyzeFailedMessage
         /\ UNCHANGED needsAuth

\* a handler that starts takes the first free place
FirstFree(h) ==
    /\ scrPc[h] = "idle"
    /\ \A g \in 1..(h - 1) : scrPc[g] # "idle"

\* the handler at h returned (after its finally block)
HandlerEnds(h) ==
    /\ scrPc' = [scrPc EXCEPT ![h] = "idle"]
    /\ scrMood' = [scrMood EXCEPT ![h] = ""]

\* analyzeMood starts: the effect of a new imageUri, whatever is running, or
\* the Try Again button
AnalyzeMood(h) ==
    /\ FirstFree(h)
    /\ loading' = TRUE
    /\ error' = ""
    /\ needsAuth' = FALSE
    /\ resolved' = "none"
    /\ scrPc' = [scrPc EXCEPT ![h] = "analyzing"]
    /\ UNCHANGED <<scrVariant, scrMood, playlistUri, moodResult, playlistMood>>
    /\ UNCHANGED <<pureVars, svcVars, staticVars>>

\* VisionService.analyzeImage returned a mood
VisionReturns(h, m) ==
    /\ scrPc[h] = "analyzing"
    /\ moodResult' = m
    /\ scrMood' = [scrMood EXCEPT ![h] = m]
    /\ scrPc' = [scrPc EXCEPT ![h] = IF scrVariant = "results" THEN "checking" ELSE "resolving"]
    /\ UNCHANGED <<scrVariant, loading, error, needsAuth, playlistUri, resolved, playlistMood>>
    /\ UNCHANGED <<pureVars, svcVars, staticVars>>

\* results.tsx: SpotifyService.isServiceAvailable returned
ServiceAvailable(h, isAuthenticated) ==
    /\ scrPc[h] = "checking"
    /\ IF ~isAuthenticated
       THEN /\ needsAuth' = TRUE
            /\ error' = AuthenticateMessage
            /\ loading' = FALSE
            /\ HandlerEnds(h)
       ELSE /\ scrPc' = [scrPc EXCEPT ![h] = "resolving"]
            /\ UNCHANGED <<needsAuth, error, loading, scrMood>>
    /\ UNCHANGED <<scrVariant, playlistUri, moodResult, resolved, playlistMood>>
    /\ UNCHANGED <<pureVars, svcVars, staticVars>>

\* getPlaylistForMood settled in the screen of that variant; analyzeMood runs
\* to its end
PlaylistResolved(h, variant, r) ==
    /\ scrPc[h] = "resolving"
    /\ scrVariant = variant
    /\ resolved' = r.finds
    /\ IF scrVariant = "results"
       THEN IF r.outcome.kind = "return"
            THEN /\ playlistUri' = r.outcome.value
                 /\ playlistMood' = scrMood[h]
                 /\ UNCHANGED <<error, needsAuth>>
            ELSE /\ AnalyzeMoodCatch(r.outcome.message)
                 /\ UNCHANGED <<playlistUri, playlistMood>>
       ELSE \* if (playlist) setPlaylistUri(playlist.external_urls?.spotify || '')
            /\ playlistUri' = IF r.outcome.value # Null
                               THEN r.outcome.value.spotify
                               ELSE playlistUri
            /\ playlistMood' = IF r.outcome.value # Null THEN scrMood[h] ELSE playlistMood
            /\ UNCHANGED <<error, needsAuth>>
    /\ loading' = FALSE
    /\ HandlerEnds(h)
    /\ UNCHANGED <<scrVariant, moodResult>>
    /\ UNCHANGED <<pureVars, svcVars, staticVars>>

\* results.tsx: the Connect Spotify button, shown with the error when needsAuth
HandleSpotifyAuth(h) ==
    /\ FirstFree(h)
    /\ scrVariant = "results"
    /\ ~loading
    /\ error # ""
    /\ needsAuth
    /\ loading' = TRUE
    /\ resolved' = "none"
    /\ scrPc' = [scrPc EXCEPT ![h] = "authenticating"]
    /\ scrMood' = [scrMood EXCEPT ![h] = moodResult]
    /\ UNCHANGED <<scrVariant, error, needsAuth, playlistUri, moodResult, playlistMood>>
    /\ UNCHANGED <<pureVars, svcVars, staticVars>>

\* SpotifyService.authenticate returned
AuthenticateReturns(h, success) ==
    /\ scrPc[h] = "authenticating"
    /\ IF success /\ scrMood[h] # ""
       THEN /\ scrPc' = [scrPc EXCEPT ![h] = "retrying"]
            /\ UNCHANGED <<loading, scrMood>>
       ELSE \* an alert, or nothing to retry; finally setLoading(false)
            /\ HandlerEnds(h)
            /\ loading' = FALSE
    /\ UNCHANGED <<scrVariant, error, needsAuth, playlistUri, moodResult, resolved,
                   playlistMood>>
    /\ UNCHANGED <<pureVars, svcVars, staticVars>>

\* the getPlaylistForMood of handleSpotifyAuth settled
RetryResolved(h, r) ==
    /\ scrPc[h] = "retrying"
    /\ resolved' = r.finds
    /\ IF r.outcome.kind = "return"
       THEN /\ playlistUri' = r.outcome.value
            /\ playlistMood' = scrMood[h]
            /\ needsAuth' = FALSE
            /\ error' = ""
       ELSE \* the catch block shows an alert
            UNCHANGED <<playlistUri, playlistMood, needsAuth, error>>
    /\ loading' = FALSE
    /\ HandlerEnds(h)
    /\ UNCHANGED <<scrVariant, moodResult>>
    /\ UNCHANGED <<pureVars, svcVars, staticVars>>

NextScreen ==
    \/ \E h \in Handlers : AnalyzeMood(h)
    \/ \E h \in Handlers, m \in MOOD_CATEGORIES : VisionReturns(h, m)
    \/ \E h \in Handlers, isAuthenticated \in BOOLEAN : ServiceAvailable(h, isAuthenticated)
    \/ \E h \in Handlers, r \in SpotifyServiceResolutions : PlaylistResolved(h, "results", r)
    \/ \E h \in Handlers, r \in SimpleResolutions : PlaylistResolved(h, "layout", r)
    \/ \E h \in Handlers : HandleSpotifyAuth(h)
    \/ \E h \in Handlers, success \in BOOLEAN : AuthenticateReturns(h, success)
    \/ \E h \in Handlers, r \in SpotifyServiceResolutions : RetryResolved(h, r)

NextStatic ==
    \/ \E token \in StaticTokens : setAccessToken(token)
    \/ \E m \in StaticMoods : StaticStart(m)
    \/ \E r \in StaticResponses : StaticSearchResponse(r)
    \/ StaticFinish

InitStatic == StaticIdle /\ PureIdle /\ SvcIdle /\ ScreenIdle

SpecStatic == InitStatic /\ [][NextStatic]_vars

Init == SvcInit /\ PureIdle /\ StaticIdle /\ ScreenIdle

Spec == Init /\ [][Next]_vars

\* getPlaylistForMood when every request it issues is answered: a suspended
\* call is resumed in the end
InitLive == SvcInit /\ PureIdle /\ StaticIdle /\ ScreenIdle

SpecLive == InitLive /\ [][Next]_vars /\ WF_vars(Response)

InitPure == PureInit /\ SvcIdle /\ StaticIdle /\ ScreenIdle

SpecPure == InitPure /\ [][PureNext]_vars

InitMultiple == SvcInit /\ PureIdle /\ StaticIdle /\ ScreenIdle

SpecMultiple == InitMultiple /\ [][NextMultiple]_vars

InitScreen == ScreenInit /\ PureIdle /\ SvcIdle /\ StaticIdle

SpecScreen == InitScreen /\ [][NextScreen]_vars

\* the two aggregators in one specification.  The services share no variable,
\* so one runs at a time: SpotifyService while SpotifyServiceStatic was never
\* used, SpotifyServiceStatic while no SpotifyService call is in flight.
NextAggregators ==
    \/ ACCESS_TOKEN = Placeholder /\ stPc = "idle" /\ Next
    \/ pc = "idle" /\ NextStatic

InitAggregators == SvcInit /\ PureIdle /\ StaticIdle /\ ScreenIdle

SpecAggregators == InitAggregators /\ [][NextAggregators]_vars

(***************************************************************************)
(* Properties of the pure functions, checked under SpecPure.               *)
(***************************************************************************)
Range(s) == { s[i] : i \in DOMAIN s }

\* C1: for a non-empty candidate array and any mood, selectBestPlaylist
\* returns a candidate of the array whose calculatePlaylistScore is at least
\* the score of every candidate of the array.
SelectBestIsMaximal ==
    (fn = "selectBestPlaylist" /\ input # <<>>) =>
        /\ out.kind = "return"
        /\ out.value \in Range(input)
        /\ \A j \in DOMAIN input :
               calculatePlaylistScore(out.value, moodIn)
                   >= calculatePlaylistScore(input[j], moodIn)

\* three candidates with three different scores, the best one in the middle
SelectBestMiddleWitness ==
    /\ fn = "selectBestPlaylist"
    /\ Len(input) = 3
    /\ calculatePlaylistScore(input[1], moodIn) < calculatePlaylistScore(input[3], moodIn)
    /\ calculatePlaylistScore(input[3], moodIn) < calculatePlaylistScore(input[2], moodIn)
    /\ out = Return(input[2])

\* C11: when several candidates share the maximum score, selectBestPlaylist
\* returns the one of them that comes first in the input array.
SelectBestBreaksTiesByInputOrder ==
    (fn = "selectBestPlaylist" /\ input # <<>>) =>
        \E i \in DOMAIN input :
            /\ out = Return(input[i])
            /\ \A j \in DOMAIN input :
                   calculatePlaylistScore(input[j], moodIn)
                       <= calculatePlaylistScore(input[i], moodIn)
            /\ \A j \in 1..(i - 1) :
                   calculatePlaylistScore(input[j], moodIn)
                       < calculatePlaylistScore(input[i], moodIn)

\* three candidates share the maximum score, the first two differ
SelectBestTieWitness ==
    /\ fn = "selectBestPlaylist"
    /\ Len(input) = 3
    /\ input[1] # input[2]
    /\ input[1].name # input[2].name
    /\ calculatePlaylistScore(input[1], moodIn) = calculatePlaylistScore(input[2], moodIn)
    /\ calculatePlaylistScore(input[2], moodIn) = calculatePlaylistScore(input[3], moodIn)
    /\ out = Return(input[1])

IndexOfId(s, id) == CHOOSE j \in DOMAIN s : s[j].id = id

\* C16: with n >= 1 filtered candidates and a count K >= 1 (3 when omitted),
\* getMultiplePlaylistsForMood returns exactly min(K, n) identifiers, those of
\* the min(K, n) highest-scoring candidates, in descending score order.
TopPlaylistsAreTheBestInOrder ==
    fn = "getMultiplePlaylistsForMood" =>
        LET K == IF countIn = <<>> THEN 3 ELSE countIn[1]
            ScoreOfId(id) == calculatePlaylistScore(input[IndexOfId(input, id)], moodIn)
        IN  K >= 1 =>
            /\ Len(out) = Min(K, Len(input))
            /\ \A i \in DOMAIN out : \E j \in DOMAIN input : input[j].id = out[i]
            /\ \A i, j \in DOMAIN out :
                   i < j => out[i] # out[j] /\ ScoreOfId(out[i]) >= ScoreOfId(out[j])
            /\ \A j \in DOMAIN input :
                   input[j].id \notin Range(out) =>
                       \A i \in DOMAIN out :
                           ScoreOfId(out[i]) >= calculatePlaylistScore(input[j], moodIn)

\* four candidates, the count omitted: the three best in score order (the two
\* that tie in input order), the lowest-scoring candidate left out
TopThreeOfFourWitness ==
    /\ fn = "getMultiplePlaylistsForMood"
    /\ countIn = <<>>
    /\ Len(input) = 4
    /\ calculatePlaylistScore(input[1], moodIn) < calculatePlaylistScore(input[2], moodIn)
    /\ calculatePlaylistScore(input[2], moodIn) < calculatePlaylistScore(input[3], moodIn)
    /\ calculatePlaylistScore(input[4], moodIn) = calculatePlaylistScore(input[3], moodIn)
    /\ out = <<"p3", "p4", "p2">>

\* C19: calculatePlaylistScore is strictly increasing in the follower count:
\* of two candidates that differ only in it, both counts at least 1, the one
\* with more followers gets the strictly higher score.
ScoreIncreasesWithFollowers ==
    (fn = "calculatePlaylistScore" /\ input[1].followers >= 1) =>
        \A f \in FollowerCounts :
            f > input[1].followers =>
                calculatePlaylistScore([input[1] EXCEPT !.followers = f], moodIn) > out

\* 1,000 followers against 100,000: the score is 20 points higher
ScoreThousandFollowersWitness ==
    /\ fn = "calculatePlaylistScore"
    /\ input[1].followers = 1000
    /\ calculatePlaylistScore([input[1] EXCEPT !.followers = 100000], moodIn) = out + 20000

\* the lowercased name contains one of the mood's search terms
NameContainsKeyword(name, mood) ==
    \E i \in DOMAIN SearchTerms(mood) :
        Includes(ToLowerCase(name), ToLowerCase(SearchTerms(mood)[i]))

\* C20: of two candidates that differ only in their name, one whose lowercased
\* name contains a keyword of the mood gets a strictly higher
\* calculatePlaylistScore than one whose name contains none.
ScoreHigherWithKeywordInName ==
    (fn = "calculatePlaylistScore" /\ NameContainsKeyword(input[1].name, moodIn)) =>
        \A n \in Names :
            ~NameContainsKeyword(n, moodIn) =>
                calculatePlaylistScore([input[1] EXCEPT !.name = n], moodIn) < out

\* "Happy Hits" under Happy scores 3 points above "Greatest Hits"
ScoreKeywordInNameWitness ==
    /\ fn = "calculatePlaylistScore"
    /\ moodIn = "Happy"
    /\ input[1].name = "Happy Hits"
    /\ out = calculatePlaylistScore([input[1] EXCEPT !.name = "Greatest Hits"], moodIn) + 3000

\* texts longer than one keyword, in either case, with one keyword or two
LongerTexts ==
    {"Happy Hits", "so happy", "HAPPY DAYS", "happy upbeat", "Jazz Mix", "LATE JAZZ", "Greatest Hits"}

\* C21: for any mood and any of its keywords k, a text equal to k up to case
\* gets a strictly higher calculateNameRelevance than any longer text that
\* contains k and no other keyword of the mood.
ExactMatchBeatsContainment ==
    fn = "calculateNameRelevance" =>
        LET searchTerms == SearchTerms(moodIn)
            OnlyKeyword(t, k) ==
                /\ Len(t) > Len(searchTerms[k])
                /\ Includes(ToLowerCase(t), ToLowerCase(searchTerms[k]))
                /\ \A l \in DOMAIN searchTerms :
                       l # k => ~Includes(ToLowerCase(t), ToLowerCase(searchTerms[l]))
        IN  \* the text the function was applied to, against the longer texts
            /\ \A k \in DOMAIN searchTerms :
                   ToLowerCase(input[1].name) = ToLowerCase(searchTerms[k]) =>
                       \A t \in LongerTexts :
                           OnlyKeyword(t, k) => calculateNameRelevance(t, moodIn) < out
            \* every keyword of the mood, against the keyword followed by " mix"
            /\ \A k \in DOMAIN searchTerms :
                   OnlyKeyword(searchTerms[k] \o " mix", k) =>
                       calculateNameRelevance(searchTerms[k] \o " mix", moodIn)
                           < calculateNameRelevance(searchTerms[k], moodIn)

\* "happy" under Happy (five keywords) gets 0.2 and "Happy Hits" 0.1
ExactMatchWitness ==
    /\ fn = "calculateNameRelevance"
    /\ moodIn = "Happy"
    /\ input[1].name = "happy"
    /\ out = 200
    /\ calculateNameRelevance("Happy Hits", moodIn) = 100

ReturnedPlaylistIsVerbatim ==
    (/\ fn \in {"selectBestPlaylist", "StaticSelectBestPlaylist", "SimpleSelectBest"}
     /\ out.kind = "return"
     /\ DOMAIN out.value # {"null"}) =>
        \E i \in DOMAIN input :
            /\ DOMAIN out.value = DOMAIN input[i]
            /\ \A f \in DOMAIN input[i] : out.value[f] = input[i][f]

NoCandidatesMessages ==
    {"No playlists available for selection", "No playlists found for this mood"}

\* C6: every selectBestPlaylist variant, applied to an empty candidate array,
\* fails with a no-candidates error: it returns nothing and throws nothing else.
SelectBestOnEmptyFailsNoCandidates ==
    (/\ fn \in {"selectBestPlaylist", "StaticSelectBestPlaylist", "MockSelectBestPlaylist"}
     /\ input = <<>>) =>
        /\ out.kind = "throw"
        /\ out.message \in NoCandidatesMessages

FilterDropsOnlyOnCountOrMissingName ==
    fn = "filterPlaylistsByQuality" =>
        \A i \in DOMAIN input :
            (input[i].tracks >= 15 /\ input[i].tracks <= 200 /\ input[i].name # "")
                => input[i] \in Range(out)

\* C8 as amended: filterPlaylistsByQuality retains a candidate exactly when its
\* track count is in 15..200, its name is non-empty and its lowercased name
\* does not contain "test".
FilterRetainsExactly ==
    fn = "filterPlaylistsByQuality" =>
        /\ Range(out) \subseteq Range(input)
        /\ \A i \in DOMAIN input :
               input[i] \in Range(out) <=>
                   /\ input[i].tracks >= 15
                   /\ input[i].tracks <= 200
                   /\ input[i].name # ""
                   /\ ~Includes(ToLowerCase(input[i].name), "test")

\* "Greatest Hits" with 50 tracks is dropped
FilterDropsGreatestHitsWitness ==
    /\ fn = "filterPlaylistsByQuality"
    /\ Len(input) = 1
    /\ input[1].name = "Greatest Hits"
    /\ input[1].tracks = 30
    /\ out = <<>>

FirstIndexOf(s, id) == CHOOSE i \in DOMAIN s : s[i].id = id /\ \A j \in 1..(i - 1) : s[j].id # id

\* C9: removeDuplicatePlaylists returns the input with every entry whose
\* identifier occurred earlier removed: first occurrences are kept, in input
\* order, and every identifier of the input is in the output.
RemoveDuplicatesKeepsFirstOccurrences ==
    fn = "removeDuplicatePlaylists" =>
        /\ \A k, l \in DOMAIN out : k # l => out[k].id # out[l].id
        /\ { out[k].id : k \in DOMAIN out } = { input[i].id : i \in DOMAIN input }
        /\ \A k \in DOMAIN out : out[k] = input[FirstIndexOf(input, out[k].id)]
        /\ \A k, l \in DOMAIN out :
               k < l => FirstIndexOf(input, out[k].id) < FirstIndexOf(input, out[l].id)

\* an identifier occurs first and last with different content
RemoveDuplicatesWitness ==
    /\ fn = "removeDuplicatePlaylists"
    /\ Len(input) = 3
    /\ input[1].id = input[3].id
    /\ input[1] # input[3]
    /\ input[2].id # input[1].id
    /\ out = <<input[1], input[2]>>

NoDuplicateIds(s) == \A k, l \in DOMAIN s : k # l => s[k].id # s[l].id

\* C2: in both aggregators (SpotifyService.searchPlaylistsByMood and
\* SpotifyServiceStatic.searchPlaylistsByMood) the candidate sequence handed to
\* scoring holds no two entries with the same playlist identifier.
AggregatedIdsAreUnique ==
    /\ pc = "done" => NoDuplicateIds(foundPlaylists)
    /\ stPc = "done" => NoDuplicateIds(stAll)

\* C13: every search request of a SpotifyServiceStatic resolution carries the
\* bearer token that was current when the resolution started, whatever
\* setAccessToken calls ran while it was suspended.
RequestsCarryStartingToken ==
    \A i \in DOMAIN stRequests : stRequests[i].token = stRequests[1].token

SearchRequestsOf(issued) == SelectSeq(issued, LAMBDA r : r.kind = "search")

\* C14: within one resolution of either aggregator at most one search request
\* is outstanding (the requests issued are at most one more than the answers
\* received), and the requests go out in the keyword order of the synonym table.
OneSearchAtATime ==
    /\ LET searches == SearchRequestsOf(requests) IN
           /\ Len(searches) - Len(responses) \in {0, 1}
           /\ Len(searches) - Len(responses) = 1 <=> pc = "searching"
           /\ \A i \in DOMAIN searches : searches[i].term = SearchTerms(callMood)[i]
    /\ Len(stRequests) - stReceived \in {0, 1}
    /\ Len(stRequests) - stReceived = 1 <=> stPc = "searching"
    /\ \A i \in DOMAIN stRequests : stRequests[i].term = getMoodKeywords(stMood)[i]

\* the third keyword of Happy is being searched after two answers, and a
\* SpotifyServiceStatic resolution is at its second keyword after one answer
ThirdSearchOutstandingWitness ==
    /\ pc = "searching"
    /\ Len(responses) = 2
    /\ Len(SearchRequestsOf(requests)) = 3
    /\ requests[Len(requests)].term = "cheerful"

\* C15: within one caller-invoked operation of SpotifyService each keyword is
\* searched at most once, and only the first three keywords of the mood are.
NoKeywordSearchedTwice ==
    LET searches == SearchRequestsOf(requests) IN
        /\ \A i, j \in DOMAIN searches : i # j => searches[i].term # searches[j].term
        /\ \A i \in DOMAIN searches :
               \E k \in 1..Min(3, Len(SearchTerms(callMood))) :
                   searches[i].term = SearchTerms(callMood)[k]

\* C17: when its search yields no filtered candidate, getMultiplePlaylistsForMood
\* (which then awaits getPlaylistForMood) returns exactly one identifier and
\* does not fail.
FallbackReturnsOnePlaylist ==
    (multiPc = "done" /\ result # Pending) =>
        /\ multiResult.kind = "return"
        /\ Len(multiResult.value) = 1

\* C18: when the resolution found no playlist, the results screen finishes
\* showing an error message (with its retry button), never in a state that is
\* neither loading nor error.
NothingFoundShowsError ==
    ((\A h \in Handlers : scrPc[h] = "idle") /\ resolved = "nothing") =>
        /\ ~loading
        /\ error # ""

RECURSIVE OkItems(_)
OkItems(rs) ==
    IF rs = <<>> THEN <<>>
    ELSE (IF Head(rs).status = "ok" THEN Head(rs).items ELSE <<>>) \o OkItems(Tail(rs))

Failed(rs) == { i \in DOMAIN rs : rs[i].status # "ok" }

\* C3: when the search request of one keyword fails (another status or a
\* network error) and the requests of other keywords succeed,
\* searchPlaylistsByMood still returns the filter-passing candidates of the
\* successful requests.
OneFailedRequestKeepsOthers ==
    (/\ pc = "done"
     /\ Cardinality(Failed(responses)) = 1
     /\ Len(responses) > 1) =>
        foundPlaylists = filterPlaylistsByQuality(removeDuplicatePlaylists(OkItems(responses)))

\* C4: the failure the caller of getPlaylistForMood sees when the aggregation
\* yields no candidate differs from the one it sees for authentication
\* required and from the one it sees for any other unexpected error.
NoCandidatesFailureIsDistinct ==
    (pc = "done" /\ raised = "No playlists found for this mood") =>
        /\ result.kind = "throw"
        /\ result # CatchHandler("Authentication required")
        /\ result # CatchHandler(TypeError)

AuthenticationRequired ==
    Throw("Please authenticate with Spotify to get personalized playlists")

\* C5 as stated: when no valid credential is available, getPlaylistForMood
\* ends with the authentication-required failure and no network request of
\* any kind was issued since the call started.
NoRequestBeforeAuthenticationRequired ==
    (pc = "done" /\ accessToken = "") =>
        /\ result = AuthenticationRequired
        /\ requests = <<>>

\* C5 as amended: when getAccessToken gives no token, getPlaylistForMood ends
\* with the authentication-required failure, and whenever it ends with that
\* failure no search request was issued since the call started (requests of
\* token validation, refresh and code exchange may have been).
NoSearchBeforeAuthenticationRequired ==
    /\ (pc = "done" /\ accessToken = "") => result = AuthenticationRequired
    /\ (pc = "done" /\ result = AuthenticationRequired) =>
           /\ accessToken = ""
           /\ \A i \in DOMAIN requests : requests[i].kind # "search"

\* the stored token was found invalid, the refresh failed and the prompt was
\* dismissed: authentication required after two requests
AuthenticationRequiredAfterRequestsWitness ==
    /\ pc = "done"
    /\ accessToken = ""
    /\ result = AuthenticationRequired
    /\ \E i, j \in DOMAIN requests :
           requests[i].kind = "validate" /\ requests[j].kind = "refresh"

\* the most requests one getPlaylistForMood issues: validation, refresh,
\* code exchange and three searches
\* C24: every resolution started by getPlaylistForMood finishes, by returning
\* a playlist identifier or by raising a failure, when every request it
\* issues is answered; it issues at most six requests (a
\* validation, a refresh, a code exchange and three searches).
ResolutionFinishes ==
    /\ [](Len(requests) <= 6)
    /\ [](pc = "done" => result.kind \in {"return", "throw"})
    /\ (pc \in {"validating", "refreshing", "prompting", "exchanging", "searching"})
           ~> (pc = "done")

\* a resolution that returned a playlist after six requests
LongestResolutionWitness ==
    /\ pc = "done"
    /\ result.kind = "return"
    /\ Len(requests) = 6
    /\ requests[3].kind = "exchange"


\* the orders in which authenticate can have done its steps when it returned
AuthenticateOrders ==
    LET prompted == { <<"authenticate", "prompt">>,
                      <<"authenticate", "validation failed", "prompt">>,
                      <<"authenticate", "validation failed", "refresh failed", "prompt">> }
    IN  { <<"authenticate", "configuration invalid">>,
          <<"authenticate", "validated">>,
          <<"authenticate", "validation failed", "refreshed">> }
        \cup { p \o <<"no code">> : p \in prompted }
        \cup { p \o <<"code", "exchanged">> : p \in prompted }
        \cup { p \o <<"code", "exchange failed">> : p \in prompted }

IsPrefix(s, t) == Len(s) <= Len(t) /\ SubSeq(t, 1, Len(s)) = s

KindsOf(issued) == [i \in DOMAIN issued |-> issued[i].kind]

\* C25: authenticate consults credentials in a fixed order.  When the stored
\* access token validates it returns the stored tokens and neither a refresh
\* request nor the prompt follows; a refresh request is issued only after the
\* validation of the stored token failed; the prompt is shown only when there
\* is no stored token, or its validation failed and the refresh was impossible
\* (no refresh token) or failed.
AuthenticateConsultsInOrder ==
    /\ \E o \in AuthenticateOrders : IsPrefix(authSteps, o)
    /\ pc \in {"searching", "done"} => authSteps \in AuthenticateOrders
    /\ (pc \in {"searching", "done"} /\ authSteps = <<"authenticate", "validated">>) =>
           /\ accessToken = stored.access_token
           /\ SelectSeq(KindsOf(requests), LAMBDA k : k # "search") = <<"validate">>
    /\ \A i \in DOMAIN requests :
           requests[i].kind = "refresh" =>
               /\ i = 2
               /\ requests[1].kind = "validate"
               /\ IsPrefix(<<"authenticate", "validation failed">>, authSteps)
    /\ \A i \in DOMAIN authSteps :
           authSteps[i] = "prompt" =>
               \/ i = 2 /\ \A j \in DOMAIN requests : requests[j].kind # "validate"
               \/ /\ i = 3
                  /\ authSteps[2] = "validation failed"
                  /\ \A j \in DOMAIN requests : requests[j].kind # "refresh"
                  /\ pc = "prompting" => stored.refresh_token = ""
               \/ i = 4 /\ authSteps[3] = "refresh failed"
    /\ pc = "prompting" =>
           /\ authSteps[Len(authSteps)] = "prompt"
           /\ stored # Null => requests[1] = ValidateRequest(stored.access_token)
           /\ (stored # Null /\ stored.refresh_token # "") =>
                  (Len(requests) = 2 /\ requests[2] = RefreshRequest(stored.refresh_token))

\* the stored token was found invalid, the refresh failed, the prompt gave a
\* code and the exchange gave tokens
AuthenticateLongestOrderWitness ==
    /\ pc = "searching"
    /\ authSteps = <<"authenticate", "validation failed", "refresh failed", "prompt",
                     "code", "exchanged">>
    /\ KindsOf(requests) = <<"validate", "refresh", "exchange", "search">>

\* C26: a successful refreshAccessToken never yields tokens with an empty
\* refresh token: when the token endpoint's answer omits refresh_token, the
\* tokens it returns, which authenticate stores and returns, carry the refresh
\* token that was sent in the request.
RefreshKeepsRefreshToken ==
    (/\ pc \in {"searching", "done"}
     /\ Len(authSteps) > 0
     /\ authSteps[Len(authSteps)] = "refreshed") =>
        LET sent == requests[2].refresh_token IN
        /\ requests[2].kind = "refresh"
        /\ sent # ""
        /\ \A received \in TokenResponses :
               LET tokens == RefreshedTokens(received, sent) IN
               /\ tokens.access_token = received.access_token
               /\ tokens.refresh_token # ""
               /\ received.refresh_token = "" => tokens.refresh_token = sent
               /\ received.refresh_token # "" => tokens = received
        /\ accessToken = "tokB"
        /\ stored.refresh_token # ""
        /\ stored.access_token = accessToken =>
               stored \in { RefreshedTokens(received, sent) : received \in TokenResponses }
        /\ stored.access_token = accessToken => stored.refresh_token \in {sent, "refB"}

\* the answer omitted refresh_token: the tokens stored carry the one sent
RefreshKeepsSentTokenWitness ==
    /\ pc = "searching"
    /\ authSteps = <<"authenticate", "validation failed", "refreshed">>
    /\ requests[2] = RefreshRequest("refA")
    /\ stored = Tokens("tokB", "refA")
    /\ accessToken = "tokB"

\* C30: whenever authenticate returns tokens it obtained by a refresh or by a
\* code exchange, secure storage holds those tokens at the moment it returns:
\* the access token handed to the caller is the stored one.
ReturnedTokensAreStored ==
    (/\ pc \in {"searching", "done"}
     /\ Len(authSteps) > 0
     /\ authSteps[Len(authSteps)] \in {"refreshed", "exchanged"}) =>
        /\ stored # Null
        /\ stored.access_token = accessToken

\* C27: whenever the results screen is neither loading nor showing an error
\* and shows both a mood and a playlist, the playlist was resolved for the
\* mood shown.
PlaylistShownMatchesMood ==
    (/\ ~loading
     /\ error = ""
     /\ moodResult # ""
     /\ playlistUri # "") =>
        playlistMood = moodResult

\* C28: the loading flag of the results screen is true whenever an analyzeMood
\* or handleSpotifyAuth is still running.
LoadingWhileInFlight ==
    (\E h \in Handlers : scrPc[h] # "idle") => loading


\* C29: getMultiplePlaylistsForMood, in either variant and for every integer
\* count, returns at most max(count, 0) identifiers.
ReturnsAtMostCount ==
    fn \in {"getMultiplePlaylistsForMood", "MockGetMultiplePlaylistsForMood"} =>
        Len(out) <= Max(CountOf(countIn), 0)

====
